---------------------------- MODULE Spec2Model ----------------------------
(***************************************************************************)
(* Model of the FriendInviteManager plugin (src/main.py): the two pending  *)
(* request registries, the request-event handler that fills them and      *)
(* notifies the administrators, and the message handler that matches an   *)
(* administrator's reply against a pending record and calls the actuator. *)
(*                                                                         *)
(* A Python str is a sequence of characters.  Characters are one-symbol   *)
(* TLA+ strings; a CJK character is written as its pinyin with the tone   *)
(* number ("tong2" is U+540C), a full-width punctuation mark by a name.   *)
(***************************************************************************)
EXTENDS Integers, Sequences, FiniteSets, TLC

-----------------------------------------------------------------------------
(* Python str operations used by the plugin *)

\* the characters of the model's alphabet that str.strip() and str.split()
\* treat as whitespace
Whitespace == {" ", "\n", "\r", "\t"}

\* the characters of the model's alphabet that str.splitlines() treats as
\* line boundaries
LineBreaks == {"\n", "\r"}

\* the empty str
EmptyStr == << >>

\* s[i:] for a 1-based i
Tail_from(s, i) == SubSeq(s, i, Len(s))

\* s.startswith(p)
startswith(s, p) == Len(p) <= Len(s) /\ SubSeq(s, 1, Len(p)) = p

\* sub in s
contains(s, sub) ==
  \E i \in 1..(Len(s) - Len(sub) + 1) : SubSeq(s, i, i + Len(sub) - 1) = sub

\* least index of s holding a character of the set cs, 0 when there is none
first_index(s, cs) ==
  LET I == {i \in 1..Len(s) : s[i] \in cs}
  IN  IF I = {} THEN 0 ELSE CHOOSE i \in I : \A j \in I : i <= j

\* least index of s holding a character outside cs, 0 when there is none
first_outside(s, cs) ==
  LET I == {i \in 1..Len(s) : s[i] \notin cs}
  IN  IF I = {} THEN 0 ELSE CHOOSE i \in I : \A j \in I : i <= j

\* greatest index of s holding a character outside cs, 0 when there is none
last_outside(s, cs) ==
  LET I == {i \in 1..Len(s) : s[i] \notin cs}
  IN  IF I = {} THEN 0 ELSE CHOOSE i \in I : \A j \in I : j <= i

\* s.strip()
strip(s) ==
  IF first_outside(s, Whitespace) = 0 THEN EmptyStr
  ELSE SubSeq(s, first_outside(s, Whitespace), last_outside(s, Whitespace))

\* s.splitlines(): "\r\n" is one boundary, no empty last line
RECURSIVE splitlines(_)
splitlines(s) ==
  IF s = EmptyStr THEN << >>
  ELSE LET i == first_index(s, LineBreaks)
       IN  IF i = 0 THEN << s >>
           ELSE LET next == IF s[i] = "\r" /\ i < Len(s) /\ s[i + 1] = "\n"
                            THEN i + 2 ELSE i + 1
                IN  << SubSeq(s, 1, i - 1) >> \o splitlines(Tail_from(s, next))

\* s.split(":", 1): one part when s has no colon, else the text before the
\* first colon and the text after it
split_colon_1(s) ==
  LET i == first_index(s, {":"})
  IN  IF i = 0 THEN << s >>
      ELSE << SubSeq(s, 1, i - 1), Tail_from(s, i + 1) >>

\* s.split(maxsplit=1): leading whitespace is skipped, the first word ends
\* at the first whitespace run, the rest starts after that run
split_maxsplit_1(s) ==
  LET a == first_outside(s, Whitespace)
  IN  IF a = 0 THEN << >>
      ELSE LET t == Tail_from(s, a)
               w == first_index(t, Whitespace)
           IN  IF w = 0 THEN << t >>
               ELSE LET rest == Tail_from(t, w)
                        b == first_outside(rest, Whitespace)
                    IN  IF b = 0 THEN << SubSeq(t, 1, w - 1) >>
                        ELSE << SubSeq(t, 1, w - 1), Tail_from(rest, b) >>

-----------------------------------------------------------------------------
(* String literals of src/main.py *)

\* "【好友申请】"
FRIEND_MARKER == << "[[", "hao3", "you3", "shen1", "qing3", "]]" >>

\* "【群邀请】"
GROUP_MARKER == << "[[", "qun2", "yao1", "qing3", "]]" >>

\* "申请ID:"
FRIEND_ID_LABEL == << "shen1", "qing3", "I", "D", ":" >>

\* "邀请ID:"
GROUP_ID_LABEL == << "yao1", "qing3", "I", "D", ":" >>

\* "同意"
APPROVE_KEYWORD == << "tong2", "yi4" >>

\* "拒绝"
REJECT_KEYWORD == << "ju4", "jue2" >>

\* "删除好友 "
DELETE_COMMAND == << "shan1", "chu2", "hao3", "you3", " " >>

\* "拉黑 "
BAN_COMMAND == << "la1", "hei1", " " >>

\* "请【引用】本条消息并回复：\n" "  同意  或  拒绝"
INSTRUCTIONS ==
  << "qing3", "[[", "yin3", "yong4", "]]", "ben3", "tiao2", "xiao1", "xi1",
     "bing4", "hui2", "fu4", "fullwidth_colon", "\n",
     " ", " ", "tong2", "yi4", " ", " ", "huo4", " ", " ", "ju4", "jue2" >>

\* the notification text of a friend request (an f-string)
friend_request_text(user_id, comment, request_id) ==
  FRIEND_MARKER \o << "\n" >>
    \o << "shen1", "qing3", "ren2", "Q", "Q", ":", " " >> \o user_id \o << "\n" >>
    \o << "yan4", "zheng4", "xin4", "xi1", ":", " " >> \o comment \o << "\n" >>
    \o << "shen1", "qing3", "I", "D", ":", " " >> \o request_id \o << "\n" >>
    \o INSTRUCTIONS

\* the notification text of a group invite (an f-string)
group_invite_text(group_id, user_id, request_id) ==
  GROUP_MARKER \o << "\n" >>
    \o << "qun2", "hao4", ":", " " >> \o group_id \o << "\n" >>
    \o << "yao1", "qing3", "ren2", "Q", "Q", ":", " " >> \o user_id \o << "\n" >>
    \o << "yao1", "qing3", "I", "D", ":", " " >> \o request_id \o << "\n" >>
    \o INSTRUCTIONS

\* The texts of event.send are never read back by the plugin: the fixed part
\* of each is one symbol, followed by the interpolated value.
\* "未找到对应的好友申请，可能已过期或已处理。"
MSG_FRIEND_NOT_FOUND == << "friend request not found" >>
\* "未找到对应的群邀请，可能已过期或已处理。"
MSG_GROUP_NOT_FOUND == << "group invite not found" >>
\* "当前平台不支持 call_action，无法处理好友申请。"
MSG_FRIEND_UNSUPPORTED == << "no call_action: friend request" >>
\* "当前平台不支持 call_action，无法处理群邀请。"
MSG_GROUP_UNSUPPORTED == << "no call_action: group invite" >>
\* "当前平台不支持 call_action，无法删除好友。"
MSG_DELETE_UNSUPPORTED == << "no call_action: delete friend" >>
\* "当前平台不支持 call_action，无法拉黑用户。"
MSG_BAN_UNSUPPORTED == << "no call_action: ban user" >>
\* f"已同意好友申请：{user_id}"
msg_friend_approved(user_id) == << "friend request approved:" >> \o user_id
\* f"已拒绝好友申请：{user_id}"
msg_friend_rejected(user_id) == << "friend request rejected:" >> \o user_id
\* f"处理好友申请失败: {e}"
msg_friend_failed(e) == << "friend request failed:" >> \o e
\* f"已同意群邀请：{group_id}，bot 将加入该群。"
msg_group_approved(group_id) ==
  << "group invite approved:" >> \o group_id \o << "bot will join" >>
\* f"已拒绝群邀请：{group_id}，bot 不会加入该群。"
msg_group_rejected(group_id) ==
  << "group invite rejected:" >> \o group_id \o << "bot will not join" >>
\* f"处理群邀请失败: {e}"
msg_group_failed(e) == << "group invite failed:" >> \o e
\* f"已删除好友：{user_id}"
msg_friend_deleted(user_id) == << "friend deleted:" >> \o user_id
\* f"删除好友失败: {e}"
msg_delete_failed(e) == << "delete friend failed:" >> \o e
\* f"已拉黑用户：{user_id}"
msg_user_banned(user_id) == << "user banned:" >> \o user_id
\* f"拉黑用户失败: {e}"
msg_ban_failed(e) == << "ban user failed:" >> \o e

\* str(e) of the exception a failed bot.call_action raises
CALL_ERROR == << "call_action error" >>
\* str(e) of the exception a failed event.send raises
SEND_ERROR == << "send error" >>

-----------------------------------------------------------------------------
(* dict operations *)

\* a get without the default: a missing key gives None, which an f-string
\* writes as "None"
dict_get_without_default(d, k, default) ==
  IF k \in DOMAIN d THEN d[k] ELSE << "None" >>

\* d.get(k, default)
dict_get(d, k, default) == IF k \in DOMAIN d THEN d[k] ELSE default

\* d[k] = v
dict_set(d, k, v) == [x \in DOMAIN d \cup {k} |-> IF x = k THEN v ELSE d[x]]

\* a pop that leaves the entry in the dict
dict_pop_keeps_entry(d, k) == d

\* d.pop(k, None)
dict_pop(d, k) == [x \in DOMAIN d \ {k} |-> d[x]]

\* {}
EmptyDict == [x \in {} |-> 0]

\* None: a value different from every str (no str of the model holds the
\* symbol "None")
None == << "None" >>

\* the truth value Python gives an Optional[str]
truthy(x) == x /= None /\ x /= EmptyStr

\* hasattr(obj, name), an object being the mapping of its attributes
hasattr(obj, name) == name \in DOMAIN obj

-----------------------------------------------------------------------------
(* Outcomes of the awaited external calls of one handler run.  env.call_ok:  *)
(* bot.call_action returns (TRUE) or raises; env.send_ok[i]: the i-th        *)
(* event.send of the run returns or raises; env.notify_ok[i]: the send to    *)
(* the i-th administrator returns or raises.                                 *)

\* the result of a handler that does nothing
no_effect(pf, pg) ==
  [pending_friend_requests |-> pf, pending_group_invites |-> pg,
   calls |-> << >>, sent |-> << >>, raised |-> FALSE]

\* an administrator check that lets every sender through
is_admin_everyone(admin_qq_list, user_id) == TRUE

\* FriendInviteManager._is_admin
is_admin(admin_qq_list, user_id) ==
  \E i \in 1..Len(admin_qq_list) : admin_qq_list[i] = user_id

\* FriendInviteManager._notify_admins: one send attempt per administrator,
\* in list order, an exception of one attempt is caught and logged
notify_admins(admin_qq_list, text, env) ==
  [i \in 1..Len(admin_qq_list) |->
     [user_id |-> admin_qq_list[i], text |-> text, ok |-> env.notify_ok[i]]]

\* the request_id of a friend request: f"{user_id}_{flag}"
friend_request_id(user_id, flag) == user_id \o << "_" >> \o flag

\* the request_id of a group invite: f"{group_id}_{user_id}_{flag}"
group_request_id(group_id, user_id, flag) ==
  group_id \o << "_" >> \o user_id \o << "_" >> \o flag

\* the record _handle_friend_request stores
friend_info(request_data) ==
  LET user_id == dict_get(request_data, "user_id", EmptyStr)
      comment == dict_get(request_data, "comment", EmptyStr)
      flag    == dict_get(request_data, "flag", EmptyStr)
  IN  [request_id |-> friend_request_id(user_id, flag), user_id |-> user_id,
       comment |-> comment, flag |-> flag]

\* the record _handle_group_invite stores
group_info(request_data) ==
  LET group_id == dict_get(request_data, "group_id", EmptyStr)
      user_id  == dict_get(request_data, "user_id", EmptyStr)
      flag     == dict_get(request_data, "flag", EmptyStr)
  IN  [request_id |-> group_request_id(group_id, user_id, flag),
       group_id |-> group_id, user_id |-> user_id, flag |-> flag]

\* a recording that keeps the record an id already has (setdefault)
handle_friend_request_first_wins(pf, admin_qq_list, request_data, env) ==
  LET info == friend_info(request_data)
      text == friend_request_text(info.user_id, info.comment, info.request_id)
  IN  [pending |-> IF info.request_id \in DOMAIN pf THEN pf
                   ELSE dict_set(pf, info.request_id, info),
       notified |-> notify_admins(admin_qq_list, text, env)]

\* FriendInviteManager._handle_friend_request: the registry after it and the
\* notifications it attempts
handle_friend_request(pf, admin_qq_list, request_data, env) ==
  LET info == friend_info(request_data)
      text == friend_request_text(info.user_id, info.comment, info.request_id)
  IN  [pending |-> dict_set(pf, info.request_id, info),
       notified |-> notify_admins(admin_qq_list, text, env)]

\* FriendInviteManager._handle_group_invite
handle_group_invite(pg, admin_qq_list, request_data, env) ==
  LET info == group_info(request_data)
      text == group_invite_text(info.group_id, info.user_id, info.request_id)
  IN  [pending |-> dict_set(pg, info.request_id, info),
       notified |-> notify_admins(admin_qq_list, text, env)]

\* a registry update that pops whether or not the call raised
registry_after_call_always_pops(pending, request_id, call_ok) ==
  dict_pop(pending, request_id)

\* a registry update that never pops
registry_after_call_never_pops(pending, request_id, call_ok) == pending

\* _reply_friend_request lines 111-118 and _reply_group_invite lines
\* 181-190: the pop follows the awaited call inside the try block, so it
\* runs only when the call did not raise
registry_after_call(pending, request_id, call_ok) ==
  IF call_ok THEN dict_pop(pending, request_id) ELSE pending

\* FriendInviteManager._reply_friend_request
reply_friend_request(pf, event, request_id, approve, env) ==
  IF request_id \notin DOMAIN pf
  THEN [pending |-> pf, calls |-> << >>,
        sent |-> << [text |-> MSG_FRIEND_NOT_FOUND, ok |-> env.send_ok[1]] >>,
        raised |-> ~env.send_ok[1]]
  ELSE IF ~hasattr(event.bot, "call_action")
  THEN [pending |-> pf, calls |-> << >>,
        sent |-> << [text |-> MSG_FRIEND_UNSUPPORTED, ok |-> env.send_ok[1]] >>,
        raised |-> ~env.send_ok[1]]
  ELSE LET info == pf[request_id]
           call == [action |-> "set_friend_add_request",
                    kwargs |-> [flag |-> info.flag, approve |-> approve],
                    ok |-> env.call_ok]
           done == IF approve THEN msg_friend_approved(info.user_id)
                   ELSE msg_friend_rejected(info.user_id)
       IN  IF ~env.call_ok
           THEN [pending |-> registry_after_call(pf, request_id, env.call_ok),
                 calls |-> << call >>,
                 sent |-> << [text |-> msg_friend_failed(CALL_ERROR),
                              ok |-> env.send_ok[1]] >>,
                 raised |-> ~env.send_ok[1]]
           ELSE IF env.send_ok[1]
           THEN [pending |-> registry_after_call(pf, request_id, env.call_ok),
                 calls |-> << call >>,
                 sent |-> << [text |-> done, ok |-> TRUE] >>,
                 raised |-> FALSE]
           ELSE [pending |-> registry_after_call(pf, request_id, env.call_ok),
                 calls |-> << call >>,
                 sent |-> << [text |-> done, ok |-> FALSE],
                             [text |-> msg_friend_failed(SEND_ERROR),
                              ok |-> env.send_ok[2]] >>,
                 raised |-> ~env.send_ok[2]]

\* FriendInviteManager._reply_group_invite
reply_group_invite(pg, event, request_id, approve, env) ==
  IF request_id \notin DOMAIN pg
  THEN [pending |-> pg, calls |-> << >>,
        sent |-> << [text |-> MSG_GROUP_NOT_FOUND, ok |-> env.send_ok[1]] >>,
        raised |-> ~env.send_ok[1]]
  ELSE IF ~hasattr(event.bot, "call_action")
  THEN [pending |-> pg, calls |-> << >>,
        sent |-> << [text |-> MSG_GROUP_UNSUPPORTED, ok |-> env.send_ok[1]] >>,
        raised |-> ~env.send_ok[1]]
  ELSE LET info == pg[request_id]
           call == [action |-> "set_group_add_request",
                    kwargs |-> [flag |-> info.flag, sub_type |-> "add",
                                approve |-> approve],
                    ok |-> env.call_ok]
           done == IF approve THEN msg_group_approved(info.group_id)
                   ELSE msg_group_rejected(info.group_id)
       IN  IF ~env.call_ok
           THEN [pending |-> registry_after_call(pg, request_id, env.call_ok),
                 calls |-> << call >>,
                 sent |-> << [text |-> msg_group_failed(CALL_ERROR),
                              ok |-> env.send_ok[1]] >>,
                 raised |-> ~env.send_ok[1]]
           ELSE IF env.send_ok[1]
           THEN [pending |-> registry_after_call(pg, request_id, env.call_ok),
                 calls |-> << call >>,
                 sent |-> << [text |-> done, ok |-> TRUE] >>,
                 raised |-> FALSE]
           ELSE [pending |-> registry_after_call(pg, request_id, env.call_ok),
                 calls |-> << call >>,
                 sent |-> << [text |-> done, ok |-> FALSE],
                             [text |-> msg_group_failed(SEND_ERROR),
                              ok |-> env.send_ok[2]] >>,
                 raised |-> ~env.send_ok[2]]

\* a delete that does not look for call_action first
delete_friend_without_check(event, user_id, env) ==
  LET call == [action |-> "delete_friend",
               kwargs |-> [user_id |-> user_id], ok |-> env.call_ok]
  IN  IF ~env.call_ok
      THEN [calls |-> << call >>,
            sent |-> << [text |-> msg_delete_failed(CALL_ERROR),
                         ok |-> env.send_ok[1]] >>,
            raised |-> ~env.send_ok[1]]
      ELSE [calls |-> << call >>,
            sent |-> << [text |-> msg_friend_deleted(user_id),
                         ok |-> env.send_ok[1]] >>,
            raised |-> ~env.send_ok[1]]

\* FriendInviteManager._delete_friend: the calls, the sends and whether an
\* exception leaves the handler
delete_friend(event, user_id, env) ==
  IF ~hasattr(event.bot, "call_action")
  THEN [calls |-> << >>,
        sent |-> << [text |-> MSG_DELETE_UNSUPPORTED, ok |-> env.send_ok[1]] >>,
        raised |-> ~env.send_ok[1]]
  ELSE LET call == [action |-> "delete_friend",
                    kwargs |-> [user_id |-> user_id], ok |-> env.call_ok]
       IN  IF ~env.call_ok
           THEN [calls |-> << call >>,
                 sent |-> << [text |-> msg_delete_failed(CALL_ERROR),
                              ok |-> env.send_ok[1]] >>,
                 raised |-> ~env.send_ok[1]]
           ELSE IF env.send_ok[1]
           THEN [calls |-> << call >>,
                 sent |-> << [text |-> msg_friend_deleted(user_id), ok |-> TRUE] >>,
                 raised |-> FALSE]
           ELSE [calls |-> << call >>,
                 sent |-> << [text |-> msg_friend_deleted(user_id), ok |-> FALSE],
                             [text |-> msg_delete_failed(SEND_ERROR),
                              ok |-> env.send_ok[2]] >>,
                 raised |-> ~env.send_ok[2]]

\* FriendInviteManager._ban_user
ban_user(event, user_id, env) ==
  IF ~hasattr(event.bot, "call_action")
  THEN [calls |-> << >>,
        sent |-> << [text |-> MSG_BAN_UNSUPPORTED, ok |-> env.send_ok[1]] >>,
        raised |-> ~env.send_ok[1]]
  ELSE LET call == [action |-> "set_friend_blacklist",
                    kwargs |-> [user_id |-> user_id, enable |-> TRUE],
                    ok |-> env.call_ok]
       IN  IF ~env.call_ok
           THEN [calls |-> << call >>,
                 sent |-> << [text |-> msg_ban_failed(CALL_ERROR),
                              ok |-> env.send_ok[1]] >>,
                 raised |-> ~env.send_ok[1]]
           ELSE IF env.send_ok[1]
           THEN [calls |-> << call >>,
                 sent |-> << [text |-> msg_user_banned(user_id), ok |-> TRUE] >>,
                 raised |-> FALSE]
           ELSE [calls |-> << call >>,
                 sent |-> << [text |-> msg_user_banned(user_id), ok |-> FALSE],
                             [text |-> msg_ban_failed(SEND_ERROR),
                              ok |-> env.send_ok[2]] >>,
                 raised |-> ~env.send_ok[2]]

-----------------------------------------------------------------------------
(* The two event listeners *)

\* on_all_message, lines 260-268: the text of the first component of the
\* message chain that has a text attribute, "" when there is none
quoted_text(event) ==
  IF hasattr(event, "message_obj") /\ hasattr(event.message_obj, "message")
  THEN LET chain == event.message_obj.message
           I == {i \in 1..Len(chain) : hasattr(chain[i], "text")}
       IN  IF I = {} THEN EmptyStr
           ELSE chain[CHOOSE i \in I : \A j \in I : i <= j].text
  ELSE EmptyStr

\* on_all_message, lines 274-279 and 291-296: the request_id of the first
\* line that starts with the label, None when no line does
extract_request_id(text, label) ==
  LET lines == SelectSeq(splitlines(text), LAMBDA line : startswith(line, label))
  IN  IF lines = << >> THEN None
      ELSE strip(split_colon_1(Head(lines))[2])

\* a friend match that looks for the label and not for the marker
friend_reply_matches_without_marker(pf, quoted) ==
  /\ truthy(extract_request_id(quoted, FRIEND_ID_LABEL))
  /\ extract_request_id(quoted, FRIEND_ID_LABEL) \in DOMAIN pf

\* on_all_message, lines 271-281: the quoted text is a friend-request
\* notification whose request_id is pending
friend_reply_matches(pf, quoted) ==
  /\ contains(quoted, FRIEND_MARKER)
  /\ truthy(extract_request_id(quoted, FRIEND_ID_LABEL))
  /\ extract_request_id(quoted, FRIEND_ID_LABEL) \in DOMAIN pf

\* on_all_message, lines 290-298: the quoted text is a group-invite
\* notification whose request_id is pending
group_reply_matches(pg, quoted) ==
  /\ contains(quoted, GROUP_MARKER)
  /\ truthy(extract_request_id(quoted, GROUP_ID_LABEL))
  /\ extract_request_id(quoted, GROUP_ID_LABEL) \in DOMAIN pg

\* a decision that approves when the reject keyword is missing
decision_approve_by_default(msg) ==
  IF contains(msg, REJECT_KEYWORD) THEN "reject" ELSE "approve"

\* a decision that looks for the reject keyword first
decision_reject_first(msg) ==
  IF contains(msg, REJECT_KEYWORD) THEN "reject"
  ELSE IF contains(msg, APPROVE_KEYWORD) THEN "approve"
  ELSE "none"

\* on_all_message, lines 282-287 and 299-304: the decision the message body
\* carries: "approve", "reject" or "none"
decision(msg) ==
  IF contains(msg, APPROVE_KEYWORD) THEN "approve"
  ELSE IF contains(msg, REJECT_KEYWORD) THEN "reject"
  ELSE "none"

\* on_all_message, lines 308-311 and 316-319: the message is the command
\* followed by an argument
is_command(msg, command) ==
  startswith(msg, command) /\ Len(split_maxsplit_1(msg)) = 2

\* an argument taken from the wrong part of the split
command_argument_first_part(msg) == strip(split_maxsplit_1(msg)[1])

\* on_all_message, lines 311 and 319: the argument of a command
command_argument(msg) == strip(split_maxsplit_1(msg)[2])

\* a listener whose reply branches do not return: the group branch and the
\* commands run after a friend reply, the commands after a group reply
on_all_message_without_return(pf, pg, admin_qq_list, event, env) ==
  LET msg    == strip(event.message_str)
      quoted == quoted_text(event)
      none   == [pending |-> pf, calls |-> << >>, sent |-> << >>, raised |-> FALSE]
      f == IF friend_reply_matches(pf, quoted) /\ decision(msg) /= "none"
           THEN reply_friend_request(
                  pf, event, extract_request_id(quoted, FRIEND_ID_LABEL),
                  decision(msg) = "approve", env)
           ELSE none
      g == IF group_reply_matches(pg, quoted) /\ decision(msg) /= "none"
           THEN reply_group_invite(
                  pg, event, extract_request_id(quoted, GROUP_ID_LABEL),
                  decision(msg) = "approve", env)
           ELSE [pending |-> pg, calls |-> << >>, sent |-> << >>,
                 raised |-> FALSE]
      c == IF is_command(msg, DELETE_COMMAND)
           THEN delete_friend(event, command_argument(msg), env)
           ELSE IF is_command(msg, BAN_COMMAND)
           THEN ban_user(event, command_argument(msg), env)
           ELSE [calls |-> << >>, sent |-> << >>, raised |-> FALSE]
  IN  IF ~is_admin(admin_qq_list, event.sender_id) THEN no_effect(pf, pg)
      ELSE IF msg = EmptyStr THEN no_effect(pf, pg)
      ELSE [pending_friend_requests |-> f.pending,
            pending_group_invites |-> g.pending,
            calls |-> f.calls \o g.calls \o c.calls,
            sent |-> f.sent \o g.sent \o c.sent,
            raised |-> f.raised \/ g.raised \/ c.raised]

\* FriendInviteManager.on_all_message
on_all_message(pf, pg, admin_qq_list, event, env) ==
  LET msg    == strip(event.message_str)
      quoted == quoted_text(event)
  IN  IF ~is_admin(admin_qq_list, event.sender_id) THEN no_effect(pf, pg)
      ELSE IF msg = EmptyStr THEN no_effect(pf, pg)
      ELSE IF friend_reply_matches(pf, quoted) /\ decision(msg) /= "none"
      THEN LET r == reply_friend_request(
                      pf, event, extract_request_id(quoted, FRIEND_ID_LABEL),
                      decision(msg) = "approve", env)
           IN  [pending_friend_requests |-> r.pending,
                pending_group_invites |-> pg,
                calls |-> r.calls, sent |-> r.sent, raised |-> r.raised]
      ELSE IF group_reply_matches(pg, quoted) /\ decision(msg) /= "none"
      THEN LET r == reply_group_invite(
                      pg, event, extract_request_id(quoted, GROUP_ID_LABEL),
                      decision(msg) = "approve", env)
           IN  [pending_friend_requests |-> pf,
                pending_group_invites |-> r.pending,
                calls |-> r.calls, sent |-> r.sent, raised |-> r.raised]
      ELSE IF is_command(msg, DELETE_COMMAND)
      THEN LET r == delete_friend(event, command_argument(msg), env)
           IN  [pending_friend_requests |-> pf, pending_group_invites |-> pg,
                calls |-> r.calls, sent |-> r.sent, raised |-> r.raised]
      ELSE IF is_command(msg, BAN_COMMAND)
      THEN LET r == ban_user(event, command_argument(msg), env)
           IN  [pending_friend_requests |-> pf, pending_group_invites |-> pg,
                calls |-> r.calls, sent |-> r.sent, raised |-> r.raised]
      ELSE no_effect(pf, pg)

\* on_request_event, lines 330-339: the event is a OneBot request event
is_request_event(event) ==
  /\ hasattr(event, "message_obj")
  /\ hasattr(event.message_obj, "raw_message")
  /\ event.message_obj.raw_message.is_dict
  /\ dict_get(event.message_obj.raw_message.items, "post_type", None)
       = << "request" >>

\* on_request_event, line 345
is_friend_request(raw_message) ==
  dict_get(raw_message, "request_type", None) = << "friend" >>

\* a group check that takes every group request for an invite
is_group_invite_any_sub_type(raw_message) ==
  dict_get(raw_message, "request_type", None) = << "group" >>

\* on_request_event, line 349
is_group_invite(raw_message) ==
  /\ dict_get(raw_message, "request_type", None) = << "group" >>
  /\ dict_get(raw_message, "sub_type", None) = << "invite" >>

\* FriendInviteManager.on_request_event.  env.notify_ok has the outcomes of
\* the sends of the one notification a request event can cause (no
\* request_type is both "friend" and "group").
on_request_event(pf, pg, admin_qq_list, event, env) ==
  IF ~is_request_event(event)
  THEN [pending_friend_requests |-> pf, pending_group_invites |-> pg,
        notified |-> << >>]
  ELSE LET raw_message == event.message_obj.raw_message.items
           f  == handle_friend_request(pf, admin_qq_list, raw_message, env)
           pf1 == IF is_friend_request(raw_message) THEN f.pending ELSE pf
           n1  == IF is_friend_request(raw_message) THEN f.notified ELSE << >>
           g  == handle_group_invite(pg, admin_qq_list, raw_message, env)
           pg1 == IF is_group_invite(raw_message) THEN g.pending ELSE pg
           n2  == IF is_group_invite(raw_message) THEN g.notified ELSE << >>
       IN  [pending_friend_requests |-> pf1, pending_group_invites |-> pg1,
            notified |-> n1 \o n2]

-----------------------------------------------------------------------------
(* The listeners as coroutines.  A coroutine runs without interruption from  *)
(* one awaited external call to the next: bot.call_action, event.send and    *)
(* adapter.send_message are the only places where the event loop can run     *)
(* another coroutine.  Awaiting one of the plugin's own methods does not     *)
(* suspend before that method's first awaited external call.                 *)

\* an empty slot of the event loop
IdleTask == [pc |-> "idle"]

\* no call prepared
NoCall == [action |-> "none"]

\* a listener entered on an event that has not awaited anything yet; it
\* stays like this when the listener returns without awaiting
entered(handler, event) ==
  [pc |-> "done", handler |-> handler, event |-> event, branch |-> "none",
   request_id |-> None, call |-> NoCall, done_text |-> EmptyStr,
   text |-> EmptyStr, in_try |-> FALSE, i |-> 0,
   calls |-> << >>, sent |-> << >>, notified |-> << >>, raised |-> FALSE]

\* the coroutine suspends at `await event.send(text)`; in_try: the send is
\* inside a try block whose except clause sends the failure text
await_send(task, text, in_try) ==
  [task EXCEPT !.pc = "send", !.text = text, !.in_try = in_try]

\* the coroutine suspends at `await bot.call_action(...)` inside the try
\* block of the given branch; done_text is the text the branch sends when
\* the call returns
await_call(task, branch, request_id, call, done_text) ==
  [task EXCEPT !.pc = "call_action", !.branch = branch,
               !.request_id = request_id, !.call = call,
               !.done_text = done_text]

\* the text the except clause of the branch sends
failed_text(branch, error) ==
  CASE branch = "friend" -> msg_friend_failed(error)
    [] branch = "group"  -> msg_group_failed(error)
    [] branch = "delete" -> msg_delete_failed(error)
    [] branch = "ban"    -> msg_ban_failed(error)

\* _reply_friend_request from its entry to its first await
reply_friend_request_start(pf, task, request_id, approve) ==
  IF request_id \notin DOMAIN pf
  THEN await_send(task, MSG_FRIEND_NOT_FOUND, FALSE)
  ELSE IF ~hasattr(task.event.bot, "call_action")
  THEN await_send(task, MSG_FRIEND_UNSUPPORTED, FALSE)
  ELSE LET info == pf[request_id]
       IN  await_call(task, "friend", request_id,
                      [action |-> "set_friend_add_request",
                       kwargs |-> [flag |-> info.flag, approve |-> approve]],
                      IF approve THEN msg_friend_approved(info.user_id)
                      ELSE msg_friend_rejected(info.user_id))

\* _reply_group_invite from its entry to its first await
reply_group_invite_start(pg, task, request_id, approve) ==
  IF request_id \notin DOMAIN pg
  THEN await_send(task, MSG_GROUP_NOT_FOUND, FALSE)
  ELSE IF ~hasattr(task.event.bot, "call_action")
  THEN await_send(task, MSG_GROUP_UNSUPPORTED, FALSE)
  ELSE LET info == pg[request_id]
       IN  await_call(task, "group", request_id,
                      [action |-> "set_group_add_request",
                       kwargs |-> [flag |-> info.flag, sub_type |-> "add",
                                   approve |-> approve]],
                      IF approve THEN msg_group_approved(info.group_id)
                      ELSE msg_group_rejected(info.group_id))

\* _delete_friend from its entry to its first await
delete_friend_start(task, user_id) ==
  IF ~hasattr(task.event.bot, "call_action")
  THEN await_send(task, MSG_DELETE_UNSUPPORTED, FALSE)
  ELSE await_call(task, "delete", None,
                  [action |-> "delete_friend",
                   kwargs |-> [user_id |-> user_id]],
                  msg_friend_deleted(user_id))

\* _ban_user from its entry to its first await
ban_user_start(task, user_id) ==
  IF ~hasattr(task.event.bot, "call_action")
  THEN await_send(task, MSG_BAN_UNSUPPORTED, FALSE)
  ELSE await_call(task, "ban", None,
                  [action |-> "set_friend_blacklist",
                   kwargs |-> [user_id |-> user_id, enable |-> TRUE]],
                  msg_user_banned(user_id))

\* on_all_message from its entry to its first await, or to its return when
\* it awaits nothing
on_all_message_start(pf, pg, admin_qq_list, event) ==
  LET task   == entered("on_all_message", event)
      msg    == strip(event.message_str)
      quoted == quoted_text(event)
  IN  IF ~is_admin(admin_qq_list, event.sender_id) THEN task
      ELSE IF msg = EmptyStr THEN task
      ELSE IF friend_reply_matches(pf, quoted) /\ decision(msg) /= "none"
      THEN reply_friend_request_start(
             pf, task, extract_request_id(quoted, FRIEND_ID_LABEL),
             decision(msg) = "approve")
      ELSE IF group_reply_matches(pg, quoted) /\ decision(msg) /= "none"
      THEN reply_group_invite_start(
             pg, task, extract_request_id(quoted, GROUP_ID_LABEL),
             decision(msg) = "approve")
      ELSE IF is_command(msg, DELETE_COMMAND)
      THEN delete_friend_start(task, command_argument(msg))
      ELSE IF is_command(msg, BAN_COMMAND)
      THEN ban_user_start(task, command_argument(msg))
      ELSE task

\* a loop over the administrators that ends at the first failed send
next_admin_until_failure(admin_qq_list, i, ok) ==
  IF ok /\ i < Len(admin_qq_list) THEN i + 1 ELSE 0

\* _notify_admins, lines 41-53: the try block is inside the for loop, so
\* after the send to the i-th administrator has returned or raised the loop
\* goes on with the next one; 0 when the list is exhausted
next_admin(admin_qq_list, i, ok) ==
  IF i < Len(admin_qq_list) THEN i + 1 ELSE 0

\* _notify_admins from its entry to its first await: nothing is awaited
\* when admin_qq_list is empty
notify_admins_start(admin_qq_list, task, text) ==
  IF admin_qq_list = << >> THEN task
  ELSE [task EXCEPT !.pc = "send_message", !.text = text, !.i = 1]

\* on_request_event from its entry to its first await: the registries after
\* it and the coroutine.  The record is stored (lines 78 and 151) before
\* _notify_admins is entered (lines 89 and 161).
on_request_event_start(pf, pg, admin_qq_list, event) ==
  LET task == entered("on_request_event", event)
      env  == [call_ok |-> TRUE, send_ok |-> << TRUE, TRUE >>,
               notify_ok |-> [i \in 1..Len(admin_qq_list) |-> TRUE]]
  IN  IF ~is_request_event(event)
      THEN [pending_friend_requests |-> pf, pending_group_invites |-> pg,
            recorded |-> {}, task |-> task]
      ELSE LET raw_message == event.message_obj.raw_message.items
               f == friend_info(raw_message)
               g == group_info(raw_message)
           IN  IF is_friend_request(raw_message)
               THEN [pending_friend_requests |->
                       handle_friend_request(pf, admin_qq_list, raw_message,
                                             env).pending,
                     pending_group_invites |-> pg,
                     recorded |-> { << "friend", f.request_id >> },
                     task |-> notify_admins_start(
                                admin_qq_list,
                                [task EXCEPT !.branch = "friend",
                                             !.request_id = f.request_id],
                                friend_request_text(f.user_id, f.comment,
                                                    f.request_id))]
               ELSE IF is_group_invite(raw_message)
               THEN [pending_friend_requests |-> pf,
                     pending_group_invites |->
                       handle_group_invite(pg, admin_qq_list, raw_message,
                                           env).pending,
                     recorded |-> { << "group", g.request_id >> },
                     task |-> notify_admins_start(
                                admin_qq_list,
                                [task EXCEPT !.branch = "group",
                                             !.request_id = g.request_id],
                                group_invite_text(g.group_id, g.user_id,
                                                  g.request_id))]
               ELSE [pending_friend_requests |-> pf,
                     pending_group_invites |-> pg,
                     recorded |-> {}, task |-> task]

-----------------------------------------------------------------------------
(* Inputs *)

\* the configured admin_qq_list
AdminList == << <<"8">>, <<"9">> >>

\* the senders of chat messages: the second administrator and a stranger
Senders == { <<"9">>, <<"5">> }

\* the raw_message dicts of friend requests:
\*   user 1, flag "2_3"                      (request_id "1_2_3")
\*   user "1_2", flag "3"                    (request_id "1_2_3" again)
\*   user 1, flag "2_3", a comment of two lines, the second "申请ID: 4_5"
\*   no user_id, comment or flag             (request_id "_")
FriendRequests ==
  { [post_type |-> <<"request">>, request_type |-> <<"friend">>,
     user_id |-> <<"1">>, comment |-> EmptyStr, flag |-> <<"2", "_", "3">>],
    [post_type |-> <<"request">>, request_type |-> <<"friend">>,
     user_id |-> <<"1", "_", "2">>, comment |-> EmptyStr, flag |-> <<"3">>],
    [post_type |-> <<"request">>, request_type |-> <<"friend">>,
     user_id |-> <<"1">>,
     comment |-> <<"h", "i", "\n">> \o FRIEND_ID_LABEL \o <<" ", "4", "_", "5">>,
     flag |-> <<"2", "_", "3">>],
    [post_type |-> <<"request">>, request_type |-> <<"friend">>] }

\* the raw_message dicts of group invites: group 1, inviter 2, flag "3"
\* (request_id "1_2_3"), and one with no group_id, user_id or flag
GroupInvites ==
  { [post_type |-> <<"request">>, request_type |-> <<"group">>,
     sub_type |-> <<"invite">>, group_id |-> <<"1">>, user_id |-> <<"2">>,
     flag |-> <<"3">>],
    [post_type |-> <<"request">>, request_type |-> <<"group">>,
     sub_type |-> <<"invite">>] }

\* other raw_message dicts: a request to join a group, a chat message, a
\* request with no request_type
OtherRawMessages ==
  { [post_type |-> <<"request">>, request_type |-> <<"group">>,
     sub_type |-> <<"add">>, group_id |-> <<"1">>, user_id |-> <<"2">>,
     flag |-> <<"3">>],
    [post_type |-> <<"message">>, user_id |-> <<"8">>],
    [post_type |-> <<"request">>] }

\* the message_obj.raw_message values: a dict or another object
RawMessages ==
  { [is_dict |-> TRUE, items |-> d] :
      d \in FriendRequests \cup GroupInvites \cup OtherRawMessages }
  \cup { [is_dict |-> FALSE, items |-> EmptyDict] }

\* the events delivered to on_request_event
RequestEvents ==
  { [sender_id |-> <<"5">>, message_str |-> EmptyStr,
     bot |-> [call_action |-> TRUE],
     message_obj |-> [message |-> << >>, raw_message |-> raw]] :
      raw \in RawMessages }
  \cup { [sender_id |-> <<"5">>, message_str |-> EmptyStr,
          bot |-> [call_action |-> TRUE]],
         [sender_id |-> <<"5">>, message_str |-> EmptyStr,
          bot |-> [call_action |-> TRUE],
          message_obj |-> [message |-> << >>]] }

\* the notification texts the plugin generates for the requests above
NotificationTexts ==
  { friend_request_text(friend_info(d).user_id, friend_info(d).comment,
                        friend_info(d).request_id) : d \in FriendRequests }
  \cup { group_invite_text(group_info(d).group_id, group_info(d).user_id,
                           group_info(d).request_id) : d \in GroupInvites }

\* other texts an administrator's message can carry: one with both markers
\* and both labels, one with the friend marker and the group label only,
\* one with the group marker and the friend label only, one with a label
\* and no marker
OtherTexts ==
  { FRIEND_MARKER \o GROUP_MARKER \o <<"\n">>
      \o FRIEND_ID_LABEL \o <<" ", "1", "_", "2", "_", "3", "\r", "\n">>
      \o GROUP_ID_LABEL \o <<"1", "_", "2", "_", "3", " ">>,
    FRIEND_MARKER \o <<"\n">> \o GROUP_ID_LABEL \o <<" ", "1", "_", "2", "_", "3">>,
    GROUP_MARKER \o <<"\n">> \o FRIEND_ID_LABEL \o <<" ", "1", "_", "2", "_", "3">>,
    FRIEND_ID_LABEL \o <<" ", "1", "_", "2", "_", "3">> }

\* the message chains: no component, one Plain component, an image
\* followed by a Plain component ("【好友申请】\n申请ID:1_2_3")
MessageChains ==
  { << >> }
  \cup { << [text |-> t] >> : t \in NotificationTexts \cup OtherTexts }
  \cup { << [file |-> <<"f">>],
            [text |-> FRIEND_MARKER \o <<"\n">> \o FRIEND_ID_LABEL
                        \o <<"1", "_", "2", "_", "3">>] >> }

\* the message_str values: "同意", "拒绝", "拒绝同意", "", "删除好友 2",
\* "删除好友 同意", "删除好友", " 拉黑  2 3 ", "拉黑 拒绝"
MessageStrs ==
  { APPROVE_KEYWORD,
    REJECT_KEYWORD,
    REJECT_KEYWORD \o APPROVE_KEYWORD,
    EmptyStr,
    DELETE_COMMAND \o <<"2">>,
    DELETE_COMMAND \o APPROVE_KEYWORD,
    <<"shan1", "chu2", "hao3", "you3">>,
    <<" ">> \o BAN_COMMAND \o <<" ", "2", " ", "3", " ">>,
    BAN_COMMAND \o REJECT_KEYWORD }

\* event.bot with and without call_action
Bots == { [call_action |-> TRUE], [name |-> <<"b">>] }

\* the events delivered to on_all_message
MessageEvents ==
  { [sender_id |-> s, message_str |-> m, bot |-> b,
     message_obj |-> [message |-> c,
                      raw_message |-> [is_dict |-> TRUE,
                                       items |-> [post_type |-> <<"message">>]]]] :
      s \in Senders, m \in MessageStrs, b \in Bots, c \in MessageChains }
  \cup { [sender_id |-> s, message_str |-> APPROVE_KEYWORD,
          bot |-> [call_action |-> TRUE]] : s \in Senders }

\* the outcomes of the awaited calls of one on_all_message run
MessageEnvs ==
  { [call_ok |-> c, send_ok |-> s, notify_ok |-> << >>] :
      c \in BOOLEAN, s \in [1..2 -> BOOLEAN] }

\* the outcomes of the awaited sends of one on_request_event run
RequestEnvs(admin_qq_list) ==
  { [call_ok |-> TRUE, send_ok |-> << TRUE, TRUE >>, notify_ok |-> n] :
      n \in [1..Len(admin_qq_list) -> BOOLEAN] }

-----------------------------------------------------------------------------
(* State *)

VARIABLES
  admin_qq_list,            \* self.admin_qq_list
  pending_friend_requests,  \* self.pending_friend_requests
  pending_group_invites,    \* self.pending_group_invites
  pc,         \* the framework's dispatch of one event at a time: "idle",
              \* "dispatched" (a listener is about to run on last.event),
              \* "handled" (the listener has returned or raised)
  last,       \* the listener and the event of the current dispatch
  calls,      \* the bot.call_action calls of the listener run, in order
  sent,       \* the event.send attempts of the listener run, in order
  notified,   \* the adapter.send_message attempts of the listener run
  raised,     \* an exception left the listener
  before,     \* history: the two registries when the listener started
  tasks,      \* the listener coroutines the event loop holds, each at its
              \* entry ("idle"), suspended at an awaited external call
              \* ("call_action", "send", "send_message") or returned ("done")
  resolved    \* history: the records whose approve/reject call succeeded
              \* and whose request_id has not been recorded again since

vars == << admin_qq_list, pending_friend_requests, pending_group_invites,
           pc, last, calls, sent, notified, raised, before, tasks, resolved >>

registry == << pending_friend_requests, pending_group_invites >>

\* no dispatch in progress
NoDispatch == [handler |-> "none"]

\* FriendInviteManager.__init__
Init ==
  /\ admin_qq_list = AdminList
  /\ pending_friend_requests = EmptyDict
  /\ pending_group_invites = EmptyDict
  /\ pc = "idle"
  /\ last = NoDispatch
  /\ calls = << >>
  /\ sent = << >>
  /\ notified = << >>
  /\ raised = FALSE
  /\ before = << EmptyDict, EmptyDict >>
  /\ tasks = << >>
  /\ resolved = {}

\* the framework takes the next chat event and is about to run on_all_message
DispatchMessage ==
  /\ pc = "idle"
  /\ \E event \in MessageEvents :
       last' = [handler |-> "on_all_message", event |-> event]
  /\ pc' = "dispatched"
  /\ UNCHANGED << admin_qq_list, registry, calls, sent, notified, raised,
                  before, tasks, resolved >>

\* the framework takes the next event and is about to run on_request_event
DispatchRequest ==
  /\ pc = "idle"
  /\ \E event \in RequestEvents :
       last' = [handler |-> "on_request_event", event |-> event]
  /\ pc' = "dispatched"
  /\ UNCHANGED << admin_qq_list, registry, calls, sent, notified, raised,
                  before, tasks, resolved >>

\* on_all_message runs to its end on the dispatched event
OnAllMessage ==
  /\ pc = "dispatched"
  /\ last.handler = "on_all_message"
  /\ \E env \in MessageEnvs :
       LET r == on_all_message(pending_friend_requests, pending_group_invites,
                               admin_qq_list, last.event, env)
       IN  /\ pending_friend_requests' = r.pending_friend_requests
           /\ pending_group_invites' = r.pending_group_invites
           /\ calls' = r.calls
           /\ sent' = r.sent
           /\ raised' = r.raised
  /\ pc' = "handled"
  /\ UNCHANGED << admin_qq_list, last, notified, before, tasks, resolved >>

\* on_request_event runs to its end on the dispatched event
OnRequestEvent ==
  /\ pc = "dispatched"
  /\ last.handler = "on_request_event"
  /\ \E env \in RequestEnvs(admin_qq_list) :
       LET r == on_request_event(pending_friend_requests, pending_group_invites,
                                 admin_qq_list, last.event, env)
       IN  /\ pending_friend_requests' = r.pending_friend_requests
           /\ pending_group_invites' = r.pending_group_invites
           /\ notified' = r.notified
  /\ pc' = "handled"
  /\ UNCHANGED << admin_qq_list, last, calls, sent, raised, before, tasks,
                  resolved >>

\* the framework is done with the event; the registry is all that remains
Return ==
  /\ pc = "handled"
  /\ pc' = "idle"
  /\ last' = NoDispatch
  /\ calls' = << >>
  /\ sent' = << >>
  /\ notified' = << >>
  /\ raised' = FALSE
  /\ before' = registry
  /\ UNCHANGED << admin_qq_list, registry, tasks, resolved >>

Next ==
  \/ DispatchMessage
  \/ DispatchRequest
  \/ OnAllMessage
  \/ OnRequestEvent
  \/ Return

Spec == Init /\ [][Next]_vars

-----------------------------------------------------------------------------
(* Properties.  They are stated on the states in which a listener has just  *)
(* run: last is the event, before the registries it started from, and      *)
(* calls, sent, notified what it did.                                       *)

RanOnAllMessage == pc = "handled" /\ last.handler = "on_all_message"

RanOnRequestEvent == pc = "handled" /\ last.handler = "on_request_event"

\* the stripped body and the quoted text of the message just handled
Msg == strip(last.event.message_str)
Quoted == quoted_text(last.event)

\* the sender of the message just handled is a configured administrator
SenderIsAdmin ==
  \E i \in 1..Len(admin_qq_list) : admin_qq_list[i] = last.event.sender_id

\* the request ids the message just handled quotes
QuotedFriendId == extract_request_id(Quoted, FRIEND_ID_LABEL)
QuotedGroupId == extract_request_id(Quoted, GROUP_ID_LABEL)

\* the listener made an approve/reject call for a friend request (a group
\* invite)
FriendCall == calls /= << >> /\ calls[1].action = "set_friend_add_request"
GroupCall == calls /= << >> /\ calls[1].action = "set_group_add_request"

\* registry now is registry was with the entry of id removed
RemovedOnly(was, now, id) ==
  /\ id \in DOMAIN was
  /\ id \notin DOMAIN now
  /\ DOMAIN now = DOMAIN was \ {id}
  /\ \A k \in DOMAIN now : now[k] = was[k]

\* C1: when an administrator's reply quotes a notification whose request id
\* is pending and the approve/reject call succeeds, exactly the record of
\* that id is gone from its registry and every other record of both
\* registries is as it was, for approve and for reject.
C1_SuccessRemovesExactlyTheRecord ==
  /\ RanOnAllMessage /\ FriendCall /\ calls[1].ok =>
       /\ SenderIsAdmin
       /\ RemovedOnly(before[1], pending_friend_requests, QuotedFriendId)
       /\ pending_group_invites = before[2]
  /\ RanOnAllMessage /\ GroupCall /\ calls[1].ok =>
       /\ SenderIsAdmin
       /\ RemovedOnly(before[2], pending_group_invites, QuotedGroupId)
       /\ pending_friend_requests = before[1]

\* C1 happens: a group invite was rejected, the call succeeded, and records
\* remain in both registries
C1_Witness ==
  /\ RanOnAllMessage /\ GroupCall /\ calls[1].ok
  /\ ~calls[1].kwargs.approve
  /\ DOMAIN pending_group_invites /= {}
  /\ DOMAIN pending_friend_requests /= {}

\* C2: a failed approve/reject call leaves both registries as they were,
\* and the same reply handled again finds the record and makes the same
\* call with the same stored flag.
C2_FailedCallKeepsRecordForRetry ==
  RanOnAllMessage /\ (FriendCall \/ GroupCall) /\ ~calls[1].ok =>
    /\ registry = before
    /\ \A env \in MessageEnvs :
         LET again == on_all_message(pending_friend_requests,
                                     pending_group_invites, admin_qq_list,
                                     last.event, env)
         IN  /\ Len(again.calls) = 1
             /\ again.calls[1].action = calls[1].action
             /\ again.calls[1].kwargs = calls[1].kwargs

\* C2 happens: the approve/reject call for a friend request failed
C2_Witness ==
  /\ RanOnAllMessage /\ FriendCall /\ ~calls[1].ok
  /\ QuotedFriendId \in DOMAIN pending_friend_requests

\* C3: an administrator's message with a decision keyword that quotes a
\* notification with a well-formed request id that is not pending gets the
\* "not found" message, causes no actuator call and leaves the registries
\* as they were.
C3_NotFoundIsReported ==
  /\ ( /\ RanOnAllMessage /\ SenderIsAdmin
       /\ (contains(Msg, APPROVE_KEYWORD) \/ contains(Msg, REJECT_KEYWORD))
       /\ contains(Quoted, FRIEND_MARKER)
       /\ truthy(QuotedFriendId)
       /\ QuotedFriendId \notin DOMAIN before[1] )
     => /\ \E i \in 1..Len(sent) : sent[i].text = MSG_FRIEND_NOT_FOUND
        /\ calls = << >>
        /\ registry = before
  /\ ( /\ RanOnAllMessage /\ SenderIsAdmin
       /\ (contains(Msg, APPROVE_KEYWORD) \/ contains(Msg, REJECT_KEYWORD))
       /\ contains(Quoted, GROUP_MARKER)
       /\ truthy(QuotedGroupId)
       /\ QuotedGroupId \notin DOMAIN before[2] )
     => /\ \E i \in 1..Len(sent) : sent[i].text = MSG_GROUP_NOT_FOUND
        /\ calls = << >>
        /\ registry = before

\* C4: a message whose sender is not in admin_qq_list causes no actuator
\* call and no reply and leaves both registries as they were, whatever its
\* body and quoted text.
C4_NonAdminIsIgnored ==
  RanOnAllMessage /\ ~SenderIsAdmin =>
    /\ calls = << >>
    /\ sent = << >>
    /\ registry = before

\* C4 happens: a stranger approved, quoting a pending friend request, on a
\* transport with call_action
C4_Witness ==
  /\ RanOnAllMessage /\ ~SenderIsAdmin
  /\ contains(Msg, APPROVE_KEYWORD)
  /\ contains(Quoted, FRIEND_MARKER)
  /\ QuotedFriendId \in DOMAIN before[1]
  /\ hasattr(last.event.bot, "call_action")

\* C5: the approve/reject call of a reply carries the flag stored in the
\* matched record; it approves whenever the body contains the approve
\* keyword, also when the reject keyword is there too, and rejects only
\* when the body contains the reject keyword and not the approve keyword.
C5_DecisionAndStoredFlag ==
  /\ RanOnAllMessage /\ FriendCall =>
       /\ QuotedFriendId \in DOMAIN before[1]
       /\ calls[1].kwargs.flag = before[1][QuotedFriendId].flag
       /\ calls[1].kwargs.approve = contains(Msg, APPROVE_KEYWORD)
       /\ ~calls[1].kwargs.approve => contains(Msg, REJECT_KEYWORD)
  /\ RanOnAllMessage /\ GroupCall =>
       /\ QuotedGroupId \in DOMAIN before[2]
       /\ calls[1].kwargs.flag = before[2][QuotedGroupId].flag
       /\ calls[1].kwargs.approve = contains(Msg, APPROVE_KEYWORD)
       /\ ~calls[1].kwargs.approve => contains(Msg, REJECT_KEYWORD)

\* C5 happens: the body held both keywords and the call approved
C5_Witness ==
  /\ RanOnAllMessage /\ FriendCall
  /\ contains(Msg, APPROVE_KEYWORD) /\ contains(Msg, REJECT_KEYWORD)
  /\ calls[1].kwargs.approve

\* the raw_message dict of the request event just handled
LastRaw == last.event.message_obj.raw_message.items

\* the event just handled is a friend request (a group invite)
RecordedFriendRequest ==
  RanOnRequestEvent /\ is_request_event(last.event) /\ is_friend_request(LastRaw)
RecordedGroupInvite ==
  RanOnRequestEvent /\ is_request_event(last.event) /\ is_group_invite(LastRaw)

\* a field of the event just handled, "" when the event lacks it
Field(name) == IF name \in DOMAIN LastRaw THEN LastRaw[name] ELSE EmptyStr

\* the ids the spec gives the event just handled
FriendIdOfEvent == Field("user_id") \o << "_" >> \o Field("flag")
GroupIdOfEvent ==
  Field("group_id") \o << "_" >> \o Field("user_id") \o << "_" >> \o Field("flag")

\* C6: the request id is a function of the identifiers and the flag: an
\* event with the identifiers and the flag of a pending record has that
\* record's id, and an event whose flag differs from a pending record's
\* flag never has that record's id.
C6_DifferentFlagsNeverCollide ==
  /\ RecordedFriendRequest =>
       \A k \in DOMAIN before[1] :
         /\ (before[1][k].user_id = Field("user_id")
               /\ before[1][k].flag = Field("flag")) => k = FriendIdOfEvent
         /\ before[1][k].flag /= Field("flag") => k /= FriendIdOfEvent
  /\ RecordedGroupInvite =>
       \A k \in DOMAIN before[2] :
         /\ (before[2][k].group_id = Field("group_id")
               /\ before[2][k].user_id = Field("user_id")
               /\ before[2][k].flag = Field("flag")) => k = GroupIdOfEvent
         /\ before[2][k].flag /= Field("flag") => k /= GroupIdOfEvent

\* C7: the request id the reply correlator extracts from the notification
\* text generated for an event is the id the record was stored under, for
\* every requester id, comment and flag.
C7_ExtractedIdIsStoredId ==
  /\ RecordedFriendRequest =>
       \A i \in 1..Len(notified) :
         /\ contains(notified[i].text, FRIEND_MARKER)
         /\ extract_request_id(notified[i].text, FRIEND_ID_LABEL) = FriendIdOfEvent
         /\ FriendIdOfEvent \in DOMAIN pending_friend_requests
  /\ RecordedGroupInvite =>
       \A i \in 1..Len(notified) :
         /\ contains(notified[i].text, GROUP_MARKER)
         /\ extract_request_id(notified[i].text, GROUP_ID_LABEL) = GroupIdOfEvent
         /\ GroupIdOfEvent \in DOMAIN pending_group_invites

\* C8: a reply whose quoted text lacks the friend-request marker makes no
\* friend-request call and removes no friend-request record, a reply whose
\* quoted text lacks the group-invite marker makes no group-invite call and
\* removes no group-invite record, also when one id is pending in both
\* registries.
C8_NamespacesIsolated ==
  /\ RanOnAllMessage /\ ~contains(Quoted, FRIEND_MARKER) =>
       /\ \A i \in 1..Len(calls) : calls[i].action /= "set_friend_add_request"
       /\ pending_friend_requests = before[1]
  /\ RanOnAllMessage /\ ~contains(Quoted, GROUP_MARKER) =>
       /\ \A i \in 1..Len(calls) : calls[i].action /= "set_group_add_request"
       /\ pending_group_invites = before[2]

\* C8 happens: a reply quoting the friend label under the group marker only,
\* its id pending in both registries, with a decision keyword
C8_Witness ==
  /\ RanOnAllMessage /\ SenderIsAdmin
  /\ ~contains(Quoted, FRIEND_MARKER) /\ contains(Quoted, GROUP_MARKER)
  /\ contains(Msg, APPROVE_KEYWORD)
  /\ QuotedFriendId \in DOMAIN before[1]
  /\ QuotedFriendId \in DOMAIN before[2]
  /\ hasattr(last.event.bot, "call_action")

\* C9: after a friend request is recorded, its id looks up the record of
\* that event (requester id, comment and flag as in the event), also when
\* the id was pending before (the later event's fields replace the earlier
\* ones under the one entry of the id); no other entry changes.
C9_RecordThenLookup ==
  RecordedFriendRequest =>
    /\ FriendIdOfEvent \in DOMAIN pending_friend_requests
    /\ pending_friend_requests[FriendIdOfEvent] =
         [request_id |-> FriendIdOfEvent, user_id |-> Field("user_id"),
          comment |-> Field("comment"), flag |-> Field("flag")]
    /\ DOMAIN pending_friend_requests = DOMAIN before[1] \cup {FriendIdOfEvent}
    /\ \A k \in DOMAIN before[1] \ {FriendIdOfEvent} :
         pending_friend_requests[k] = before[1][k]

\* C9 happens: the requester id and flag were pending with another comment
C9_Witness ==
  /\ RecordedFriendRequest
  /\ FriendIdOfEvent \in DOMAIN before[1]
  /\ before[1][FriendIdOfEvent].user_id = Field("user_id")
  /\ before[1][FriendIdOfEvent].flag = Field("flag")
  /\ before[1][FriendIdOfEvent].comment /= Field("comment")

\* the message just handled was answered as a reply to a pending request
RepliedToPending ==
  \/ /\ contains(Quoted, FRIEND_MARKER) /\ truthy(QuotedFriendId)
     /\ QuotedFriendId \in DOMAIN before[1]
     /\ (contains(Msg, APPROVE_KEYWORD) \/ contains(Msg, REJECT_KEYWORD))
  \/ /\ contains(Quoted, GROUP_MARKER) /\ truthy(QuotedGroupId)
     /\ QuotedGroupId \in DOMAIN before[2]
     /\ (contains(Msg, APPROVE_KEYWORD) \/ contains(Msg, REJECT_KEYWORD))

\* the text that follows the command word in the message just handled
ArgumentAfter(command) == strip(Tail_from(Msg, Len(command) + 1))

\* what C10 asks of a command message
OneCommandCall ==
  /\ startswith(Msg, DELETE_COMMAND) =>
       /\ Len(calls) = 1
       /\ calls[1].action = "delete_friend"
       /\ calls[1].kwargs = [user_id |-> ArgumentAfter(DELETE_COMMAND)]
       /\ registry = before
  /\ startswith(Msg, BAN_COMMAND) =>
       /\ Len(calls) = 1
       /\ calls[1].action = "set_friend_blacklist"
       /\ calls[1].kwargs = [user_id |-> ArgumentAfter(BAN_COMMAND),
                             enable |-> TRUE]
       /\ registry = before

\* C10 as claimed: an administrator's message that is not answered as a
\* reply to a pending request and begins with "删除好友 " (with "拉黑 ") makes
\* exactly one call, delete_friend of the argument (set_friend_blacklist of
\* the argument with enable true), and leaves both registries as they were.
C10_CommandMakesOneCall ==
  RanOnAllMessage /\ SenderIsAdmin /\ ~RepliedToPending => OneCommandCall

\* C10 as amended: the same, for an event whose bot has call_action
C10_CommandMakesOneCallWhenSupported ==
  ( /\ RanOnAllMessage /\ SenderIsAdmin /\ ~RepliedToPending
    /\ hasattr(last.event.bot, "call_action") ) => OneCommandCall

\* C10 happens: a ban command that quotes a pending friend request without a
\* decision keyword, and the call failed
C10_Witness ==
  /\ RanOnAllMessage /\ SenderIsAdmin
  /\ startswith(Msg, BAN_COMMAND)
  /\ QuotedFriendId \in DOMAIN before[1]
  /\ ~RepliedToPending
  /\ Len(calls) = 1 /\ ~calls[1].ok

\* the event of the message just handled has a bot without call_action
NoCallAction == "call_action" \notin DOMAIN last.event.bot

\* the quoted friend (group) request of the message just handled is pending
\* and the body has a decision keyword
RepliedToPendingFriend ==
  /\ contains(Quoted, FRIEND_MARKER) /\ truthy(QuotedFriendId)
  /\ QuotedFriendId \in DOMAIN before[1]
  /\ (contains(Msg, APPROVE_KEYWORD) \/ contains(Msg, REJECT_KEYWORD))
RepliedToPendingGroup ==
  /\ contains(Quoted, GROUP_MARKER) /\ truthy(QuotedGroupId)
  /\ QuotedGroupId \in DOMAIN before[2]
  /\ (contains(Msg, APPROVE_KEYWORD) \/ contains(Msg, REJECT_KEYWORD))

\* C12: when the bot of the event has no call_action, an approve/reject
\* reply to a pending request, a delete-friend command and a ban command
\* make no actuator call, send the "unsupported" message of the operation,
\* and leave both registries as they were (the matched record stays
\* pending).
C12_NoCallActionAborts ==
  ( /\ RanOnAllMessage /\ SenderIsAdmin /\ NoCallAction
    /\ \/ RepliedToPending
       \/ startswith(Msg, DELETE_COMMAND)
       \/ startswith(Msg, BAN_COMMAND) )
  => /\ calls = << >>
     /\ registry = before
     /\ Len(sent) = 1
     /\ sent[1].text =
          IF RepliedToPendingFriend THEN MSG_FRIEND_UNSUPPORTED
          ELSE IF RepliedToPendingGroup THEN MSG_GROUP_UNSUPPORTED
          ELSE IF startswith(Msg, DELETE_COMMAND) THEN MSG_DELETE_UNSUPPORTED
          ELSE MSG_BAN_UNSUPPORTED

\* C12 happens: a delete-friend command on a bot without call_action while a
\* friend request is pending
C12_Witness ==
  /\ RanOnAllMessage /\ SenderIsAdmin /\ NoCallAction
  /\ startswith(Msg, DELETE_COMMAND) /\ ~RepliedToPending
  /\ DOMAIN pending_friend_requests /= {}
  /\ sent /= << >>

\* C13: an administrator's message that is neither a decision reply to a
\* pending request nor a delete-friend or ban command with an argument
\* causes no actuator call, no reply and no registry change.
C13_OtherMessagesIgnored ==
  ( /\ RanOnAllMessage /\ SenderIsAdmin
    /\ ~RepliedToPending
    /\ ~startswith(Msg, DELETE_COMMAND)
    /\ ~startswith(Msg, BAN_COMMAND) )
  => /\ calls = << >>
     /\ sent = << >>
     /\ registry = before

\* C13 happens: an administrator quoted a pending friend request with a body
\* that has neither decision keyword and is no command
C13_Witness ==
  /\ RanOnAllMessage /\ SenderIsAdmin
  /\ Msg /= EmptyStr
  /\ contains(Quoted, FRIEND_MARKER)
  /\ QuotedFriendId \in DOMAIN before[1]
  /\ ~contains(Msg, APPROVE_KEYWORD) /\ ~contains(Msg, REJECT_KEYWORD)
  /\ ~startswith(Msg, DELETE_COMMAND) /\ ~startswith(Msg, BAN_COMMAND)
  /\ hasattr(last.event.bot, "call_action")

\* C14: a friend-request or group-invite event with missing fields is
\* recorded like any other: each missing field is the empty string, the
\* record is stored under the id computed from those values, and every
\* administrator is sent the notification text of those values.
C14_MissingFieldsAreEmpty ==
  /\ RecordedFriendRequest =>
       /\ FriendIdOfEvent \in DOMAIN pending_friend_requests
       /\ pending_friend_requests[FriendIdOfEvent] =
            [request_id |-> FriendIdOfEvent, user_id |-> Field("user_id"),
             comment |-> Field("comment"), flag |-> Field("flag")]
       /\ Len(notified) = Len(admin_qq_list)
       /\ \A i \in 1..Len(notified) :
            /\ notified[i].user_id = admin_qq_list[i]
            /\ notified[i].text =
                 friend_request_text(Field("user_id"), Field("comment"),
                                     FriendIdOfEvent)
  /\ RecordedGroupInvite =>
       /\ GroupIdOfEvent \in DOMAIN pending_group_invites
       /\ pending_group_invites[GroupIdOfEvent] =
            [request_id |-> GroupIdOfEvent, group_id |-> Field("group_id"),
             user_id |-> Field("user_id"), flag |-> Field("flag")]
       /\ Len(notified) = Len(admin_qq_list)
       /\ \A i \in 1..Len(notified) :
            /\ notified[i].user_id = admin_qq_list[i]
            /\ notified[i].text =
                 group_invite_text(Field("group_id"), Field("user_id"),
                                   GroupIdOfEvent)

\* C14 happens: a group invite without group_id, user_id and flag was
\* recorded under "__" and the administrators were sent its text
C14_Witness ==
  /\ RecordedGroupInvite
  /\ DOMAIN LastRaw \cap {"group_id", "user_id", "flag"} = {}
  /\ << "_", "_" >> \in DOMAIN pending_group_invites
  /\ notified /= << >>

\* C15: one administrator message makes at most one actuator call: after a
\* decision reply to a pending friend request the only call is the
\* set_friend_add_request call, after one to a pending group invite the
\* set_group_add_request call; no call for the other registry and no
\* delete-friend or ban call follows, also when the quoted text has both
\* markers or the body begins with a command word.
C15_AtMostOneCall ==
  RanOnAllMessage =>
    /\ Len(calls) <= 1
    /\ (SenderIsAdmin /\ RepliedToPendingFriend) =>
         \A i \in 1..Len(calls) : calls[i].action = "set_friend_add_request"
    /\ (SenderIsAdmin /\ RepliedToPendingGroup /\ ~RepliedToPendingFriend) =>
         \A i \in 1..Len(calls) : calls[i].action = "set_group_add_request"

\* C15 happens: the quoted text has both markers, its id is pending in both
\* registries, the body is a delete-friend command that holds the approve
\* keyword, and the one call is the friend approval
C15_Witness ==
  /\ RanOnAllMessage /\ SenderIsAdmin
  /\ RepliedToPendingFriend /\ RepliedToPendingGroup
  /\ startswith(Msg, DELETE_COMMAND)
  /\ Len(calls) = 1 /\ calls[1].ok

\* the event just handled by on_request_event is a OneBot request of the
\* given request_type
HandledRequestOfType(request_type) ==
  /\ RanOnRequestEvent
  /\ "message_obj" \in DOMAIN last.event
  /\ "raw_message" \in DOMAIN last.event.message_obj
  /\ last.event.message_obj.raw_message.is_dict
  /\ "post_type" \in DOMAIN LastRaw /\ LastRaw.post_type = << "request" >>
  /\ "request_type" \in DOMAIN LastRaw /\ LastRaw.request_type = request_type

\* it is a friend request; it is a group request of sub type "invite"
HandledFriendRequest == HandledRequestOfType(<< "friend" >>)
HandledGroupInvite ==
  /\ HandledRequestOfType(<< "group" >>)
  /\ "sub_type" \in DOMAIN LastRaw /\ LastRaw.sub_type = << "invite" >>

\* C17: the registries change in three ways only: a friend request event
\* sets one entry of pending_friend_requests, a group invite event (request
\* type "group", sub type "invite") sets one entry of pending_group_invites,
\* a successful approve/reject call removes one entry; every other event
\* and every other message leaves both registries as they were.
C17_RegistryChangesOnlyThreeWays ==
  /\ pc /= "handled" => registry = before
  /\ RanOnRequestEvent =>
       IF HandledFriendRequest
       THEN /\ DOMAIN pending_friend_requests
                 = DOMAIN before[1] \cup {FriendIdOfEvent}
            /\ \A k \in DOMAIN before[1] \ {FriendIdOfEvent} :
                 pending_friend_requests[k] = before[1][k]
            /\ pending_group_invites = before[2]
       ELSE IF HandledGroupInvite
       THEN /\ DOMAIN pending_group_invites
                 = DOMAIN before[2] \cup {GroupIdOfEvent}
            /\ \A k \in DOMAIN before[2] \ {GroupIdOfEvent} :
                 pending_group_invites[k] = before[2][k]
            /\ pending_friend_requests = before[1]
       ELSE registry = before
  /\ RanOnAllMessage =>
       IF FriendCall /\ calls[1].ok
       THEN /\ \E id \in DOMAIN before[1] :
                 RemovedOnly(before[1], pending_friend_requests, id)
            /\ pending_group_invites = before[2]
       ELSE IF GroupCall /\ calls[1].ok
       THEN /\ \E id \in DOMAIN before[2] :
                 RemovedOnly(before[2], pending_group_invites, id)
            /\ pending_friend_requests = before[1]
       ELSE registry = before

\* C17 happens: a request to join a group (sub type "add") was handled while
\* records were pending
C17_Witness ==
  /\ HandledRequestOfType(<< "group" >>)
  /\ "sub_type" \in DOMAIN LastRaw /\ LastRaw.sub_type = << "add" >>
  /\ DOMAIN pending_group_invites /= {}
  /\ DOMAIN pending_friend_requests /= {}

-----------------------------------------------------------------------------
(* The coroutine runs: inputs, initial states and steps *)

\* the raw_message dicts of the coroutine runs: the two friend requests with
\* request_id "1_2_3" and no comment, the group invite "1_2_3", the request
\* to join a group
StepRawMessages ==
  { d \in FriendRequests \cup GroupInvites \cup OtherRawMessages :
      /\ "flag" \in DOMAIN d
      /\ "comment" \in DOMAIN d => d.comment = EmptyStr }

\* the events delivered to on_request_event in the coroutine runs
StepRequestEvents ==
  { e \in RequestEvents :
      /\ hasattr(e, "message_obj")
      /\ hasattr(e.message_obj, "raw_message")
      /\ e.message_obj.raw_message.items \in StepRawMessages }

\* the quoted notifications of the coroutine runs
StepMessageChains ==
  { << [text |-> friend_request_text(friend_info(d).user_id,
                                     friend_info(d).comment,
                                     friend_info(d).request_id)] >> :
      d \in FriendRequests \cap StepRawMessages }
  \cup { << [text |-> group_invite_text(group_info(d).group_id,
                                        group_info(d).user_id,
                                        group_info(d).request_id)] >> :
           d \in GroupInvites \cap StepRawMessages }

\* the events delivered to on_all_message in the coroutine runs: the
\* administrator "9" replies "同意" or "拒绝" to a notification or sends
\* "删除好友 2" or " 拉黑  2 3 "
StepMessageEvents ==
  { e \in MessageEvents :
      /\ e.sender_id = << "9" >>
      /\ e.message_str \in { APPROVE_KEYWORD, REJECT_KEYWORD,
                             DELETE_COMMAND \o << "2" >>,
                             << " " >> \o BAN_COMMAND
                               \o << " ", "2", " ", "3", " " >> }
      /\ hasattr(e, "message_obj")
      /\ e.message_obj.message \in StepMessageChains }

\* the variables of the one-event-at-a-time dispatch, which the coroutine
\* runs leave alone
dispatch == << pc, last, calls, sent, notified, raised, before >>

\* the plugin after __init__ with an event loop of one slot: one event is
\* handled at a time.  admin_qq_list is the configured list, which may be
\* empty.
InitSerial ==
  /\ admin_qq_list \in { << >>, AdminList }
  /\ pending_friend_requests = EmptyDict
  /\ pending_group_invites = EmptyDict
  /\ pc = "idle"
  /\ last = NoDispatch
  /\ calls = << >>
  /\ sent = << >>
  /\ notified = << >>
  /\ raised = FALSE
  /\ before = << EmptyDict, EmptyDict >>
  /\ tasks = << IdleTask >>
  /\ resolved = {}

\* the plugin after __init__ with an event loop of two slots: the handlers
\* of two events interleave at their awaits
InitConcurrent ==
  /\ admin_qq_list = AdminList
  /\ pending_friend_requests = EmptyDict
  /\ pending_group_invites = EmptyDict
  /\ pc = "idle"
  /\ last = NoDispatch
  /\ calls = << >>
  /\ sent = << >>
  /\ notified = << >>
  /\ raised = FALSE
  /\ before = << EmptyDict, EmptyDict >>
  /\ tasks = << IdleTask, IdleTask >>
  /\ resolved = {}

\* the slots an event loop of the model can have
Slots == { 1, 2 }

\* the event loop starts on_all_message on an event in slot t; the listener
\* runs to its first await
StartOnAllMessage(t) ==
  /\ t \in DOMAIN tasks
  /\ tasks[t].pc = "idle"
  /\ \E event \in StepMessageEvents :
       tasks' = [tasks EXCEPT ![t] =
                   on_all_message_start(pending_friend_requests,
                                        pending_group_invites,
                                        admin_qq_list, event)]
  /\ UNCHANGED << admin_qq_list, registry, dispatch, resolved >>

\* the event loop starts on_request_event on an event in slot t; the
\* listener runs to its first await
StartOnRequestEvent(t) ==
  /\ t \in DOMAIN tasks
  /\ tasks[t].pc = "idle"
  /\ \E event \in StepRequestEvents :
       LET r == on_request_event_start(pending_friend_requests,
                                       pending_group_invites,
                                       admin_qq_list, event)
       IN  /\ pending_friend_requests' = r.pending_friend_requests
           /\ pending_group_invites' = r.pending_group_invites
           /\ tasks' = [tasks EXCEPT ![t] = r.task]
           /\ resolved' = { x \in resolved :
                              << x.branch, x.request_id >> \notin r.recorded }
  /\ UNCHANGED << admin_qq_list, dispatch >>

\* bot.call_action returns or raises and the coroutine of slot t runs to
\* its next await: the pop of a reply (lines 118 and 190), then the send of
\* the confirmation, or the send of the except clause
CallReturns(t) ==
  /\ t \in DOMAIN tasks
  /\ tasks[t].pc = "call_action"
  /\ \E ok \in BOOLEAN :
       LET task == tasks[t]
           call == [action |-> task.call.action, kwargs |-> task.call.kwargs,
                    ok |-> ok]
       IN  /\ pending_friend_requests' =
                IF task.branch = "friend"
                THEN registry_after_call(pending_friend_requests,
                                         task.request_id, ok)
                ELSE pending_friend_requests
           /\ pending_group_invites' =
                IF task.branch = "group"
                THEN registry_after_call(pending_group_invites,
                                         task.request_id, ok)
                ELSE pending_group_invites
           /\ resolved' =
                IF ok /\ task.branch \in { "friend", "group" }
                THEN resolved \cup { [branch |-> task.branch,
                                      request_id |-> task.request_id,
                                      flag |-> task.call.kwargs.flag] }
                ELSE resolved
           /\ tasks' = [tasks EXCEPT ![t] =
                          await_send(
                            [task EXCEPT !.calls = Append(task.calls, call)],
                            IF ok THEN task.done_text
                            ELSE failed_text(task.branch, CALL_ERROR),
                            ok)]
  /\ UNCHANGED << admin_qq_list, dispatch >>

\* event.send returns or raises in slot t: the coroutine returns, or the
\* except clause of the try block sends the failure text, or the exception
\* leaves the listener
SendReturns(t) ==
  /\ t \in DOMAIN tasks
  /\ tasks[t].pc = "send"
  /\ \E ok \in BOOLEAN :
       LET task == [tasks[t] EXCEPT
                      !.sent = Append(tasks[t].sent,
                                      [text |-> tasks[t].text, ok |-> ok])]
       IN  tasks' = [tasks EXCEPT ![t] =
                       IF ok THEN [task EXCEPT !.pc = "done"]
                       ELSE IF task.in_try
                       THEN await_send(task,
                                       failed_text(task.branch, SEND_ERROR),
                                       FALSE)
                       ELSE [task EXCEPT !.pc = "done", !.raised = TRUE]]
  /\ UNCHANGED << admin_qq_list, registry, dispatch, resolved >>

\* adapter.send_message returns or raises in slot t: _notify_admins goes on
\* with the next administrator or returns
NotifyReturns(t) ==
  /\ t \in DOMAIN tasks
  /\ tasks[t].pc = "send_message"
  /\ \E ok \in BOOLEAN :
       LET task == [tasks[t] EXCEPT
                      !.notified =
                        Append(tasks[t].notified,
                               [user_id |-> admin_qq_list[tasks[t].i],
                                text |-> tasks[t].text, ok |-> ok])]
           next == next_admin(admin_qq_list, task.i, ok)
       IN  tasks' = [tasks EXCEPT ![t] =
                       IF next = 0 THEN [task EXCEPT !.pc = "done"]
                       ELSE [task EXCEPT !.i = next]]
  /\ UNCHANGED << admin_qq_list, registry, dispatch, resolved >>

\* the event loop drops the returned coroutine of slot t
Finish(t) ==
  /\ t \in DOMAIN tasks
  /\ tasks[t].pc = "done"
  /\ tasks' = [tasks EXCEPT ![t] = IdleTask]
  /\ UNCHANGED << admin_qq_list, registry, dispatch, resolved >>

NextSteps ==
  \/ \E t \in Slots : StartOnAllMessage(t)
  \/ \E t \in Slots : StartOnRequestEvent(t)
  \/ \E t \in Slots : CallReturns(t)
  \/ \E t \in Slots : SendReturns(t)
  \/ \E t \in Slots : NotifyReturns(t)
  \/ \E t \in Slots : Finish(t)

\* one event at a time, observed at every await
SpecSerial == InitSerial /\ [][NextSteps]_vars

\* two handlers interleaving at their awaits
SpecConcurrent == InitConcurrent /\ [][NextSteps]_vars

-----------------------------------------------------------------------------
(* Properties of the coroutine runs.  They are stated on the coroutines of   *)
(* the slots, from the fields of the events they were started on.            *)

\* the raw_message dict of the event of slot t, and a field of it, "" when
\* the dict does not have it
TaskRaw(t) == tasks[t].event.message_obj.raw_message.items
TaskField(t, name) ==
  IF name \in DOMAIN TaskRaw(t) THEN TaskRaw(t)[name] ELSE EmptyStr

\* slot t holds on_request_event, at an await or returned, started on a
\* OneBot request of the given request_type
TaskOnRequestOfType(t, request_type) ==
  /\ tasks[t].pc \in { "send_message", "done" }
  /\ tasks[t].handler = "on_request_event"
  /\ "message_obj" \in DOMAIN tasks[t].event
  /\ "raw_message" \in DOMAIN tasks[t].event.message_obj
  /\ tasks[t].event.message_obj.raw_message.is_dict
  /\ "post_type" \in DOMAIN TaskRaw(t)
  /\ TaskRaw(t).post_type = << "request" >>
  /\ "request_type" \in DOMAIN TaskRaw(t)
  /\ TaskRaw(t).request_type = request_type

\* slot t records a friend request; slot t records a group invite
TaskRecordsFriendRequest(t) == TaskOnRequestOfType(t, << "friend" >>)
TaskRecordsGroupInvite(t) ==
  /\ TaskOnRequestOfType(t, << "group" >>)
  /\ "sub_type" \in DOMAIN TaskRaw(t)
  /\ TaskRaw(t).sub_type = << "invite" >>

\* the record of the event of slot t is in its registry
TaskFriendRecordStored(t) ==
  LET id == TaskField(t, "user_id") \o << "_" >> \o TaskField(t, "flag")
  IN  /\ id \in DOMAIN pending_friend_requests
      /\ pending_friend_requests[id] =
           [request_id |-> id, user_id |-> TaskField(t, "user_id"),
            comment |-> TaskField(t, "comment"), flag |-> TaskField(t, "flag")]
TaskGroupRecordStored(t) ==
  LET id == TaskField(t, "group_id") \o << "_" >> \o TaskField(t, "user_id")
              \o << "_" >> \o TaskField(t, "flag")
  IN  /\ id \in DOMAIN pending_group_invites
      /\ pending_group_invites[id] =
           [request_id |-> id, group_id |-> TaskField(t, "group_id"),
            user_id |-> TaskField(t, "user_id"), flag |-> TaskField(t, "flag")]

\* the notification of slot t has gone to the administrators in list order,
\* one attempt each, whatever the outcomes: while a send is awaited it is
\* the send to the administrator after the ones attempted, and when the
\* listener has returned every administrator has had an attempt
TaskNotifiesInListOrder(t) ==
  /\ Len(tasks[t].notified) <= Len(admin_qq_list)
  /\ \A i \in 1..Len(tasks[t].notified) :
       /\ tasks[t].notified[i].user_id = admin_qq_list[i]
       /\ tasks[t].notified[i].text = tasks[t].text
  /\ tasks[t].pc = "send_message" =>
       /\ tasks[t].i = Len(tasks[t].notified) + 1
       /\ tasks[t].i <= Len(admin_qq_list)
  /\ tasks[t].pc = "done" => Len(tasks[t].notified) = Len(admin_qq_list)

\* C18: when a request event is recorded, the record is in its registry
\* from the first awaited notification on and stays there whatever the
\* outcomes of the notifications; a send is attempted to every configured
\* administrator in list order, a failed send does not stop the attempts to
\* the remaining administrators; with an empty administrator list nothing
\* is sent and the record is stored all the same.
C18_StoredThenEveryAdminNotified ==
  \A t \in DOMAIN tasks :
    /\ TaskRecordsFriendRequest(t) =>
         TaskFriendRecordStored(t) /\ TaskNotifiesInListOrder(t)
    /\ TaskRecordsGroupInvite(t) =>
         TaskGroupRecordStored(t) /\ TaskNotifiesInListOrder(t)

\* C18 happens: the send to the first administrator failed, the second
\* administrator had an attempt all the same and the record is stored
C18_Witness ==
  \E t \in DOMAIN tasks :
    /\ TaskRecordsFriendRequest(t)
    /\ tasks[t].pc = "done"
    /\ Len(tasks[t].notified) = Len(AdminList)
    /\ ~tasks[t].notified[1].ok
    /\ TaskFriendRecordStored(t)

\* slot t holds on_all_message on a reply that quotes a notification with
\* the given request_id line
TaskQuotesId(t, label, request_id) ==
  /\ tasks[t].pc /= "idle"
  /\ tasks[t].handler = "on_all_message"
  /\ extract_request_id(quoted_text(tasks[t].event), label) = request_id

\* the label of the request_id line of a branch
LabelOf(branch) ==
  IF branch = "friend" THEN FRIEND_ID_LABEL ELSE GROUP_ID_LABEL

\* the approve/reject action of a branch
ActionOf(branch) ==
  IF branch = "friend" THEN "set_friend_add_request"
  ELSE "set_group_add_request"

\* C16: handling one event at a time, a pending record is resolved at most
\* once per recording: once the approve/reject call for a request_id has
\* succeeded, no reply that quotes this request_id issues a call with the
\* record's flag until a request event records the request_id again.
C16_ResolvedOncePerRecording ==
  \A t \in DOMAIN tasks : \A x \in resolved :
    TaskQuotesId(t, LabelOf(x.branch), x.request_id) =>
      /\ tasks[t].pc = "call_action" =>
           ~(/\ tasks[t].call.action = ActionOf(x.branch)
             /\ tasks[t].call.kwargs.flag = x.flag)
      /\ \A i \in 1..Len(tasks[t].calls) :
           /\ tasks[t].calls[i].action = ActionOf(x.branch)
           /\ tasks[t].calls[i].kwargs.flag = x.flag
           => /\ tasks[t].calls[i].ok
              /\ tasks[t].request_id = x.request_id
              /\ tasks[t].branch = x.branch

\* C16 happens: a record was resolved, and a later reply "同意" or "拒绝"
\* that quotes its notification has been handled without any call
C16_Witness ==
  \E t \in DOMAIN tasks : \E x \in resolved :
    /\ x.branch = "friend"
    /\ TaskQuotesId(t, FRIEND_ID_LABEL, x.request_id)
    /\ contains(quoted_text(tasks[t].event), FRIEND_MARKER)
    /\ strip(tasks[t].event.message_str) \in { APPROVE_KEYWORD, REJECT_KEYWORD }
    /\ tasks[t].pc = "done"
    /\ tasks[t].calls = << >>

\* slot t awaits the approve/reject call of a branch for a request_id
TaskCallInFlight(t, branch, request_id) ==
  /\ tasks[t].pc = "call_action"
  /\ tasks[t].branch = branch
  /\ tasks[t].request_id = request_id

\* C11: when the handlers of two messages interleave at their awaits, two
\* replies to the same notification never both reach the actuator for the
\* same record: no handler awaits an approve/reject call for a request_id
\* while another handler's call for this request_id is in flight, and no
\* handler awaits one with the flag of a record whose call has succeeded.
C11_NoSecondCallForTheSameRecord ==
  /\ \A t1, t2 \in DOMAIN tasks : \A branch \in { "friend", "group" } :
       /\ t1 /= t2
       /\ tasks[t1].pc = "call_action"
       /\ TaskCallInFlight(t1, branch, tasks[t1].request_id)
       => ~TaskCallInFlight(t2, branch, tasks[t1].request_id)
  /\ \A t \in DOMAIN tasks : \A x \in resolved :
       ~(/\ TaskCallInFlight(t, x.branch, x.request_id)
         /\ tasks[t].call.kwargs.flag = x.flag)

=============================================================================
